---- MODULE Spec2Model ----
(***************************************************************************)
(* Model of mzident_writer/writer.py: the MzIdentMLWriter document         *)
(* session, its DocumentSection scopes and the XMLWriterMixin helpers,     *)
(* over the streaming serializer, the output sink and the identity         *)
(* registry they drive.                                                    *)
(*                                                                         *)
(* writer.py is modelled statement by statement.  The collaborators it     *)
(* imports (the streaming serializer behind etree.xmlfile / element, the   *)
(* Component classes and the identity registry of .components) are not     *)
(* part of writer.py; they are modelled from their contracts in spec.md    *)
(* sections 4.1, 4.2, 6 and 7.                                             *)
(***************************************************************************)
EXTENDS Integers, Sequences, FiniteSets, TLC

\* ------------------------------------------------------------------ bounds
\* Number of public calls made on one MzIdentMLWriter in a run.
MaxCalls == 4
\* Number of times xmlfile.__enter__ hands out a writer in a run.
MaxWriters == 2

\* ------------------------------------------------------------------ values
None == 0                       \* self.writer is None
NoHandle == [w |-> 0, h |-> 0]  \* self.toplevel is None
RootTag == "MzIdentML"          \* writer.py:117
Sections == {"SecA", "SecB"}    \* section names given to DocumentSection
ElementTag == "El"              \* a name given to XMLWriterMixin.element

\* Outcomes of a call: "ok" or the exception that leaves it.
\*   NotReady        ValueError("This writer has not yet been created. ...")
\*   AttributeError  a raw AttributeError (attribute access on None)
\*   ScopeViolation  the serializer refusing an out-of-order close or a
\*                   write after the final close
\*   ValidationError entity construction failing
\*   IOError         the sink refusing a flush because it is closed
\*   BodyError       an exception raised by the caller's own code in a scope
\*   TypeError       a call or an iteration the argument's type does not allow
\*   running         (no outcome yet: the call is still writing)
Outcomes == {"ok", "NotReady", "AttributeError", "ScopeViolation",
             "ValidationError", "IOError", "BodyError", "TypeError", "running"}

VARIABLES
    writer,        \* self.writer: None or the id of the serializer instance
    toplevel,      \* self.toplevel: NoHandle or the handle of the root element
    ser,           \* serializer instances, by id: [status, stack]
    out,           \* the document stream: serializer events in order
    flushed,       \* how many events of out have reached the sink
    outfile,       \* the sink: "open" or "closed"
    xmlfile,       \* etree.xmlfile: "new", "entered" or "exited"
    nextH,         \* next element handle the serializer gives out
    sec,           \* DocumentSection objects by name: [entered, w, h]
    elems,         \* live XMLWriterMixin.element contexts: <<[w, h]>>
    vocabularies,  \* self.vocabularies
    registry,      \* identity bindings: set of [t, key, id]
    minted,        \* per entity type, how many ids were minted
    pc,            \* "idle", or the streaming write the session is inside
    gens,          \* the generators of the streaming write in progress
    stream,        \* bookkeeping of the streaming write in progress
    result,        \* outcome of the last finished call
    lastOp,        \* name of the last call that was made
    hist,          \* history of the run (not program state), see NoHistory
    calls          \* number of calls made so far

vars == <<writer, toplevel, ser, out, flushed, outfile, xmlfile, nextH, sec,
          elems, vocabularies, registry, minted, pc, gens, stream, result,
          lastOp, hist, calls>>

\* ------------------------------------------------- the world of one call
\* A call threads the state it may change through the statements it runs;
\* once err is not "ok" an exception is propagating and nothing else runs.
Cur ==
    [ser |-> ser, out |-> out, flushed |-> flushed, outfile |-> outfile,
     nextH |-> nextH, reg |-> registry, minted |-> minted, ents |-> <<>>,
     err |-> "ok"]

Raise(wd, e) == IF wd.err = "ok" THEN [wd EXCEPT !.err = e] ELSE wd

Event(k, tag, w, h, data) == [k |-> k, tag |-> tag, w |-> w, h |-> h, data |-> data]

Last(s) == s[Len(s)]
ButLast(s) == SubSeq(s, 1, Len(s) - 1)

\* ------------------------------------------------- streaming serializer
\* element(writer, tag).__enter__(): begin a named element on writer w.
SerStart(wd, w, tag) ==
    IF wd.err # "ok" THEN wd
    ELSE IF w = None THEN Raise(wd, "AttributeError")
    ELSE IF wd.ser[w].status \in {"finished", "closed"} THEN Raise(wd, "ScopeViolation")
    ELSE [wd EXCEPT
            !.ser[w] = [status |-> "in",
                        stack |-> Append(wd.ser[w].stack, [tag |-> tag, h |-> wd.nextH])],
            !.out = Append(wd.out, Event("open", tag, w, wd.nextH, <<>>)),
            !.nextH = wd.nextH + 1]

\* handle.__exit__(): end element h of writer w; h must be the innermost one.
SerEnd(wd, w, h) ==
    IF wd.err # "ok" THEN wd
    ELSE IF w = None THEN Raise(wd, "AttributeError")
    ELSE IF wd.ser[w].status # "in" THEN Raise(wd, "ScopeViolation")
    ELSE IF Last(wd.ser[w].stack).h # h THEN Raise(wd, "ScopeViolation")
    ELSE [wd EXCEPT
            !.ser[w] = [status |-> IF Len(wd.ser[w].stack) = 1 THEN "finished" ELSE "in",
                        stack |-> ButLast(wd.ser[w].stack)],
            !.out = Append(wd.out, Event("close", Last(wd.ser[w].stack).tag, w, h, <<>>))]

\* writer.write(node): append a fully formed node to the innermost element.
SerWrite(wd, w, tag, data) ==
    IF wd.err # "ok" THEN wd
    ELSE IF w = None THEN Raise(wd, "AttributeError")
    ELSE IF wd.ser[w].status \in {"finished", "closed"} THEN Raise(wd, "ScopeViolation")
    ELSE [wd EXCEPT !.out = Append(wd.out, Event("leaf", tag, w, 0, data))]

\* writer.flush(): push buffered output to the sink.
SerFlush(wd, w) ==
    IF wd.err # "ok" THEN wd
    ELSE IF w = None THEN Raise(wd, "AttributeError")
    ELSE IF wd.outfile = "closed" /\ wd.flushed < Len(wd.out) THEN Raise(wd, "IOError")
    ELSE [wd EXCEPT !.flushed = Len(wd.out)]

\* xmlfile.__exit__(): close the serializer instance the xmlfile handed out.
XmlfileExit(wd, w) ==
    IF wd.err # "ok" THEN wd
    ELSE [wd EXCEPT !.ser[w].status = "closed"]

\* outfile.close()
OutfileClose(wd) ==
    IF wd.err # "ok" THEN wd ELSE [wd EXCEPT !.outfile = "closed"]

\* ------------------------------------------------------- caller's values
\* The plain values a caller passes: a mapping describing one entity (ok:
\* whether an entity can be built from it; key: the id it carries, NoKey
\* when it carries none), None, or a list of such values.
NoKey == <<"none", 0>>
MapV(ok, key) == [kind |-> "map", ok |-> ok, key |-> key, items |-> <<>>]
NoneV == [kind |-> "none", ok |-> TRUE, key |-> NoKey, items |-> <<>>]
ListV(items) == [kind |-> "list", ok |-> TRUE, key |-> NoKey, items |-> items]

Good1 == MapV(TRUE, <<"user", 1>>)
Good2 == MapV(TRUE, <<"user", 2>>)
Plain == MapV(TRUE, NoKey)      \* a mapping that names no id, and {}
Bad == MapV(FALSE, NoKey)       \* a mapping no entity can be built from
StrV == [kind |-> "str", ok |-> TRUE, key |-> NoKey, items |-> <<>>]
\* A mapping describing an identification result with its identifications.
ResultV(ok, key, identifications) ==
    [kind |-> "map", ok |-> ok, key |-> key, items |-> <<identifications>>]

\* A tolerance argument: None, a pre-built entity, or a list / tuple of
\* bounds (ok: whether the tolerance entity can be built from it; args:
\* the bounds, in the order given).
TolNone == [kind |-> "none", ok |-> TRUE, args |-> <<>>]
TolEntity == [kind |-> "entity", ok |-> TRUE, args |-> <<>>]
TolList(ok) == [kind |-> "list", ok |-> ok, args |-> <<"lower", "upper">>]

\* ensure_iterable
ensure_iterable(obj) ==
    IF obj.kind \in {"map", "str", "none"} THEN ListV(<<obj>>) ELSE obj

\* (s or {})
OrEmpty(s) == IF s.kind = "none" THEN Plain ELSE s

\* ----------------------------------------------------- identity registry
\* An id_maker that leaves the entity type out of the id.
id_maker_untyped(t, key) == <<"ID", key[1], key[2]>>

\* id_maker: the id generated for a key of an entity type.
id_maker(t, key) == <<t, key[1], key[2]>>

Bound(reg, t, key) == {b \in reg : b.t = t /\ b.key = key}

\* resolve(entity_type, key): the id bound to (t, key), or the one it gets.
Resolve(reg, t, key) ==
    IF Bound(reg, t, key) # {}
    THEN (CHOOSE b \in Bound(reg, t, key) : TRUE).id
    ELSE id_maker(t, key)

\* The registry after (t, key) was referenced.
Bind(reg, t, key) ==
    IF Bound(reg, t, key) # {} THEN reg
    ELSE reg \cup {[t |-> t, key |-> key, id |-> id_maker(t, key)]}

\* The key an entity of type t built from mapping m goes by: the one the
\* mapping carries, or a fresh one minted for the type.
KeyFor(wd, t, m) ==
    IF m.key = NoKey THEN <<"auto", wd.minted[t] + 1>> ELSE m.key

\* self.<Component>(**m): build one entity of type t from mapping m. The
\* entity is appended to wd.ents; a mapping no entity can be built from
\* raises.
Construct(wd, t, m) ==
    IF wd.err # "ok" THEN wd
    ELSE IF m.kind # "map" THEN Raise(wd, "TypeError")
    ELSE IF ~m.ok THEN Raise(wd, "ValidationError")
    ELSE [wd EXCEPT
            !.reg = Bind(wd.reg, t, KeyFor(wd, t, m)),
            !.minted[t] = IF m.key = NoKey THEN wd.minted[t] + 1 ELSE wd.minted[t],
            !.ents = Append(wd.ents, [t |-> t, key |-> KeyFor(wd, t, m)])]

\* [self.<Component>(**(s or {})) for s in items]
RECURSIVE ConstructAll(_, _, _)
ConstructAll(wd, t, items) ==
    IF items = <<>> THEN wd
    ELSE ConstructAll(Construct(wd, t, OrEmpty(items[1])), t, Tail(items))

\* The ids under which entities es are written.
IdsOf(reg, es) == [i \in 1..Len(es) |-> Resolve(reg, es[i].t, es[i].key)]

\* <component>.write(writer): a whole element written in one piece.
ComponentWrite(wd, w, tag, data) == SerWrite(wd, w, tag, data)

\* ------------------------------------------------------- sampled inputs
CvArgs == {NoneV, ListV(<<>>), ListV(<<"cvA">>), ListV(<<"cvB", "cvC">>)}

ProvidenceArgs ==
    {<<ListV(<<>>), NoneV, NoneV>>,
     <<Good1, Good1, Good2>>,
     <<ListV(<<Good1>>), Bad, NoneV>>,
     <<Bad, NoneV, Good1>>}

InputsArgs ==
    {<<ListV(<<>>), ListV(<<>>), ListV(<<>>)>>,
     <<Good1, ListV(<<Good1, Good2>>), ListV(<<Plain>>)>>,
     <<ListV(<<Good1>>), ListV(<<Bad>>), ListV(<<Good1>>)>>}

ProtocolArgs ==
    {<<ListV(<<>>), ListV(<<>>), TolNone, TolNone, "none">>,
     <<Good1, ListV(<<Good1, Good2>>), TolList(TRUE), TolEntity, "t1">>,
     <<ListV(<<Good1>>), ListV(<<>>), TolEntity, TolList(FALSE), "t1">>,
     <<ListV(<<Bad>>), ListV(<<>>), TolList(TRUE), TolList(TRUE), "none">>}

SequenceArgs ==
    {<<ListV(<<>>), ListV(<<>>), ListV(<<>>)>>,
     <<ListV(<<Good1, Good2>>), Good1, ListV(<<Plain>>)>>,
     <<NoneV, ListV(<<Good1, Bad, Good2>>), ListV(<<Good2>>)>>}

ResultArgs ==
    {ListV(<<>>),
     ListV(<<ResultV(TRUE, <<"user", 1>>, ListV(<<Good1, Good2>>)),
             ResultV(TRUE, <<"user", 2>>, Good2)>>),
     ListV(<<ResultV(TRUE, <<"user", 1>>, ListV(<<>>)),
             ResultV(TRUE, <<"user", 2>>, Bad)>>),
     Good1,
     NoneV}

NoStream == [built |-> 0, pulls |-> 0, cur |-> 0, w |-> None, h |-> None, reit |-> {}]

\* ---------------------------------------------------------------- frame
\* The state a call leaves behind: the world it threaded, and its outcome.
CommitAs(wd, op, res, n) ==
    /\ ser' = wd.ser
    /\ out' = wd.out
    /\ flushed' = wd.flushed
    /\ outfile' = wd.outfile
    /\ nextH' = wd.nextH
    /\ registry' = wd.reg
    /\ minted' = wd.minted
    /\ result' = res
    /\ lastOp' = op
    /\ calls' = calls + n

Commit(wd, op) == CommitAs(wd, op, wd.err, 1)

Idle == pc = "idle" /\ calls < MaxCalls

\* ---------------------------------------------------------------- history
\* What the run has done so far, kept to state properties of runs:
\*   held     the scopes the caller has opened and not closed, in the order
\*            of opening, each [w, h]
\*   broken   the writers on which a close was attempted out of LIFO order
\*   ended    __exit__ has run on the entered session, or close() was called
\*   aborted  a section write was cut short by a failing entity construction
\*   target   the scope the last closing call asked to close
NoHistory == [held |-> <<>>, broken |-> {}, ended |-> FALSE, aborted |-> FALSE,
              target |-> NoHandle]

RemoveAt(s, i) == SubSeq(s, 1, i - 1) \o SubSeq(s, i + 1, Len(s))

Without(s, x) == SelectSeq(s, LAMBDA y : y # x)

\* The scopes the caller holds open on writer w, oldest first.
HeldOn(w) == SelectSeq(hist.held, LAMBDA x : x.w = w)

\* Closing scope hd respects LIFO order when hd is the scope the caller
\* opened last, among those still open on its writer.
InOrder(hd) == HeldOn(hd.w) # <<>> /\ Last(HeldOn(hd.w)) = hd

\* The history after the caller opened scope hd (when ok).
Opened(hd, ok) ==
    IF ok THEN [hist EXCEPT !.held = Append(@, hd)] ELSE hist

\* The history after the caller asked to close scope hd; gone: the scope is
\* closed or can no longer be closed.
Closing(hd, gone) ==
    [hist EXCEPT !.target = hd,
                 !.held = IF gone THEN Without(@, hd) ELSE @,
                 !.broken = IF InOrder(hd) THEN @ ELSE @ \cup {hd.w}]

\* The history after a section operation that ended with wd.err.
Section(wd) ==
    [hist EXCEPT !.aborted = @ \/ wd.err \in {"ValidationError", "TypeError"}]

\* ------------------------------------------------------ MzIdentMLWriter
EntityTypes == {"AnalysisSoftware", "Person", "Organization",
                "SourceFile", "SearchDatabase", "SpectraData",
                "DBSequence", "Peptide", "PeptideEvidence",
                "Enzyme", "SearchModification",
                "SpectrumIdentificationResult", "SpectrumIdentificationItem"}

\* MzIdentMLWriter.__init__
Init ==
    /\ writer = None
    /\ toplevel = NoHandle
    /\ ser = <<>>
    /\ out = <<>>
    /\ flushed = 0
    /\ outfile = "open"
    /\ xmlfile = "new"
    /\ nextH = 1
    /\ sec = [s \in Sections |-> [entered |-> FALSE, w |-> None, h |-> None]]
    /\ elems = <<>>
    /\ vocabularies = <<"cv0">>
    /\ registry = {}
    /\ minted = [t \in EntityTypes |-> 0]
    /\ pc = "idle"
    /\ gens = <<>>
    /\ stream = NoStream
    /\ result = "ok"
    /\ lastOp = "init"
    /\ hist = NoHistory
    /\ calls = 0

\* MzIdentMLWriter.__enter__ (with _begin)
Enter ==
    /\ Idle
    /\ Len(ser) < MaxWriters
    /\ LET w == Len(ser) + 1
           wd0 == [Cur EXCEPT !.ser = Append(ser, [status |-> "ready", stack |-> <<>>])]
           wd1 == SerStart(wd0, w, RootTag)
       IN /\ writer' = w
          /\ xmlfile' = "entered"
          /\ toplevel' = [w |-> w, h |-> nextH]
          /\ hist' = [Opened([w |-> w, h |-> nextH], TRUE) EXCEPT !.ended = FALSE]
          /\ Commit(wd1, "enter")
    /\ UNCHANGED <<sec, elems, vocabularies, pc, gens, stream>>

\* __exit__ releasing the sink without flushing the writer first.
ExitWithoutFlush(exc) ==
    /\ Idle
    /\ LET wd1 == IF toplevel = NoHandle THEN Raise(Cur, "AttributeError")
                  ELSE SerEnd(Cur, toplevel.w, toplevel.h)
           wd3 == XmlfileExit(wd1, writer)
           wd4 == OutfileClose(wd3)
       IN /\ xmlfile' = IF wd3.err = "ok" THEN "exited" ELSE xmlfile
          /\ hist' = IF toplevel = NoHandle THEN hist
                      ELSE [Closing(toplevel, wd1.err = "ok") EXCEPT !.ended = TRUE]
          /\ Commit(wd4, "exit")
    /\ UNCHANGED <<writer, toplevel, sec, elems, vocabularies, pc, gens, stream>>

\* MzIdentMLWriter.__exit__
Exit(exc) ==
    /\ Idle
    /\ LET wd1 == IF toplevel = NoHandle THEN Raise(Cur, "AttributeError")
                  ELSE SerEnd(Cur, toplevel.w, toplevel.h)
           wd2 == SerFlush(wd1, writer)
           wd3 == XmlfileExit(wd2, writer)
           wd4 == OutfileClose(wd3)
       IN /\ xmlfile' = IF wd3.err = "ok" THEN "exited" ELSE xmlfile
          /\ hist' = IF toplevel = NoHandle THEN hist
                      ELSE [Closing(toplevel, wd1.err = "ok") EXCEPT !.ended = TRUE]
          /\ Commit(wd4, "exit")
    /\ UNCHANGED <<writer, toplevel, sec, elems, vocabularies, pc, gens, stream>>

\* MzIdentMLWriter.close
Close ==
    /\ Idle
    /\ Commit(OutfileClose(Cur), "close")
    /\ hist' = [hist EXCEPT !.ended = TRUE]
    /\ UNCHANGED <<writer, toplevel, xmlfile, sec, elems, vocabularies, pc, gens,
                   stream>>

\* ------------------------------------------------------ XMLWriterMixin
\* The except-clause of XMLWriterMixin.element and XMLWriterMixin.write: an
\* AttributeError becomes the not-ready ValueError when self.writer is None
\* and is re-raised otherwise; any other exception passes through.
NotReadyGuard(wd) ==
    IF wd.err = "AttributeError" /\ writer = None
    THEN [wd EXCEPT !.err = "NotReady"]
    ELSE wd

\* XMLWriterMixin.write
Write ==
    /\ Idle
    /\ Commit(NotReadyGuard(SerWrite(Cur, writer, "node", <<>>)), "write")
    /\ UNCHANGED <<writer, toplevel, xmlfile, sec, elems, vocabularies, pc, gens,
                   stream, hist>>

\* XMLWriterMixin.element, up to its yield: the element is begun and the
\* caller's body starts.
ElementEnter ==
    /\ Idle
    /\ LET wd == NotReadyGuard(SerStart(Cur, writer, ElementTag))
       IN /\ elems' = IF wd.err = "ok"
                      THEN Append(elems, [w |-> writer, h |-> nextH])
                      ELSE elems
          /\ hist' = Opened([w |-> writer, h |-> nextH], wd.err = "ok")
          /\ Commit(wd, "element_enter")
    /\ UNCHANGED <<writer, toplevel, xmlfile, sec, vocabularies, pc, gens, stream>>

\* What leaves a scope whose body ended with `raised` and whose close ended
\* with wd.err: a failing close replaces the body's exception.
Propagate(wd, raised) ==
    IF wd.err = "ok" /\ raised # "ok" THEN [wd EXCEPT !.err = raised] ELSE wd

\* XMLWriterMixin.element without the guaranteed close: an exception from
\* the body leaves the scope without ending its element.
ElementExitLeaking(i, raised) ==
    /\ Idle
    /\ i \in 1..Len(elems)
    /\ LET wd == IF raised = "ok"
                 THEN NotReadyGuard(SerEnd(Cur, elems[i].w, elems[i].h))
                 ELSE NotReadyGuard(Raise(Cur, raised))
       IN /\ elems' = RemoveAt(elems, i)
          /\ hist' = Closing(elems[i], TRUE)
          /\ Commit(wd, "element_exit")
    /\ UNCHANGED <<writer, toplevel, xmlfile, sec, vocabularies, pc, gens, stream>>

\* XMLWriterMixin.element, from its yield on: the body of context i ended,
\* normally (raised = "ok") or with an exception; the inner `with` ends the
\* element, and the except-clause sees what propagates.
ElementExit(i, raised) ==
    /\ Idle
    /\ i \in 1..Len(elems)
    /\ LET wd == NotReadyGuard(Propagate(SerEnd(Cur, elems[i].w, elems[i].h), raised))
       IN /\ elems' = RemoveAt(elems, i)
          /\ hist' = Closing(elems[i], TRUE)
          /\ Commit(wd, "element_exit")
    /\ UNCHANGED <<writer, toplevel, xmlfile, sec, vocabularies, pc, gens, stream>>

\* ----------------------------------------------------- DocumentSection
\* DocumentSection(section, self.writer, context).__enter__()
SectionEnter(s) ==
    /\ Idle
    /\ ~sec[s].entered
    /\ LET wd == SerStart(Cur, writer, s)
       IN /\ sec' = IF wd.err = "ok"
                    THEN [sec EXCEPT ![s] = [entered |-> TRUE, w |-> writer, h |-> nextH]]
                    ELSE sec
          /\ hist' = Opened([w |-> writer, h |-> nextH], wd.err = "ok")
          /\ Commit(wd, "section_enter")
    /\ UNCHANGED <<writer, toplevel, xmlfile, elems, vocabularies, pc, gens, stream>>

\* DocumentSection.__exit__ swallowing what ending its element raises.
SectionExitLenient(s, exc) ==
    /\ Idle
    /\ sec[s].entered
    /\ LET wd1 == SerEnd(Cur, sec[s].w, sec[s].h)
           wd2 == SerFlush([wd1 EXCEPT !.err = "ok"], sec[s].w)
       IN /\ sec' = [sec EXCEPT ![s] = [entered |-> FALSE, w |-> None, h |-> None]]
          /\ hist' = Closing([w |-> sec[s].w, h |-> sec[s].h], TRUE)
          /\ Commit(wd2, "section_exit")
    /\ UNCHANGED <<writer, toplevel, xmlfile, elems, vocabularies, pc, gens, stream>>

\* DocumentSection.__exit__
SectionExit(s, exc) ==
    /\ Idle
    /\ sec[s].entered
    /\ LET wd1 == SerEnd(Cur, sec[s].w, sec[s].h)
           wd2 == SerFlush(wd1, sec[s].w)
       IN /\ sec' = IF wd1.err = "ok"
                    THEN [sec EXCEPT ![s] = [entered |-> FALSE, w |-> None, h |-> None]]
                    ELSE sec
          /\ hist' = Closing([w |-> sec[s].w, h |-> sec[s].h], wd1.err = "ok")
          /\ Commit(wd2, "section_exit")
    /\ UNCHANGED <<writer, toplevel, xmlfile, elems, vocabularies, pc, gens, stream>>

\* ------------------------------------------------------ section operations
\* controlled_vocabularies emitting only the entries of this call.
controlled_vocabularies_given_only(v) ==
    /\ Idle
    /\ LET given == IF v.kind = "none" THEN <<>> ELSE v.items
           all == vocabularies \o given
       IN /\ vocabularies' = all
          /\ Commit(ComponentWrite(Cur, writer, "cvList", given), "controlled_vocabularies")
    /\ UNCHANGED <<writer, toplevel, xmlfile, sec, elems, pc, gens, stream, hist>>

\* MzIdentMLWriter.controlled_vocabularies
controlled_vocabularies(v) ==
    /\ Idle
    /\ LET given == IF v.kind = "none" THEN <<>> ELSE v.items
           all == vocabularies \o given
       IN /\ vocabularies' = all
          /\ Commit(ComponentWrite(Cur, writer, "cvList", all), "controlled_vocabularies")
    /\ UNCHANGED <<writer, toplevel, xmlfile, sec, elems, pc, gens, stream, hist>>

\* A Provider given the organization's id for its contact.
ProviderContactOrganization(owner, organization) == organization.key

\* The contact a Provider is given: Provider(contact=owner.id).
ProviderContact(owner, organization) == owner.key

\* providence writing the AnalysisSoftwareList as soon as the software
\* entities are built, before the owner and the organization are.
providence_interleaved(software, owner, organization) ==
    /\ Idle
    /\ LET n == Len(ensure_iterable(software).items)
           wd1 == ConstructAll(Cur, "AnalysisSoftware", ensure_iterable(software).items)
           wd2 == ComponentWrite(wd1, writer, "AnalysisSoftwareList",
                                 IdsOf(wd1.reg, SubSeq(wd1.ents, 1, n)))
           wd3 == Construct(Construct(wd2, "Person", OrEmpty(owner)),
                            "Organization", OrEmpty(organization))
           own == wd3.ents[n + 1]
           org == wd3.ents[n + 2]
           contact == ProviderContact(own, org)
           wd5 == ComponentWrite([wd3 EXCEPT !.reg = Bind(wd3.reg, "Person", contact)],
                                 writer, "Provider",
                                 <<Resolve(wd3.reg, "Person", contact)>>)
           wd6 == ComponentWrite(wd5, writer, "AuditCollection",
                                 IdsOf(wd5.reg, <<own, org>>))
           end == IF wd3.err = "ok" THEN wd6
                  ELSE IF wd1.err = "ok" THEN [wd2 EXCEPT !.err = wd3.err]
                  ELSE wd1
       IN /\ hist' = Section(end)
          /\ Commit(end, "providence")
    /\ UNCHANGED <<writer, toplevel, xmlfile, sec, elems, vocabularies, pc, gens,
                   stream>>

\* MzIdentMLWriter.providence
providence(software, owner, organization) ==
    /\ Idle
    /\ LET n == Len(ensure_iterable(software).items)
           wd1 == ConstructAll(Cur, "AnalysisSoftware", ensure_iterable(software).items)
           wd2 == Construct(wd1, "Person", OrEmpty(owner))
           wd3 == Construct(wd2, "Organization", OrEmpty(organization))
           sw == SubSeq(wd3.ents, 1, n)
           own == wd3.ents[n + 1]
           org == wd3.ents[n + 2]
           contact == ProviderContact(own, org)
           wd4 == ComponentWrite(wd3, writer, "AnalysisSoftwareList", IdsOf(wd3.reg, sw))
           wd5 == ComponentWrite([wd4 EXCEPT !.reg = Bind(wd4.reg, "Person", contact)],
                                 writer, "Provider",
                                 <<Resolve(wd4.reg, "Person", contact)>>)
           wd6 == ComponentWrite(wd5, writer, "AuditCollection",
                                 IdsOf(wd5.reg, <<own, org>>))
           end == IF wd3.err = "ok" THEN wd6 ELSE wd3
       IN /\ hist' = Section(end)
          /\ Commit(end, "providence")
    /\ UNCHANGED <<writer, toplevel, xmlfile, sec, elems, vocabularies, pc, gens,
                   stream>>

\* inputs handing the search databases to Inputs ahead of the source files.
inputs_swapped(source_files, search_databases, spectra_data) ==
    /\ Idle
    /\ LET a == ensure_iterable(search_databases).items
           b == ensure_iterable(source_files).items
           c == ensure_iterable(spectra_data).items
           wd1 == ConstructAll(Cur, "SearchDatabase", a)
           wd2 == ConstructAll(wd1, "SourceFile", b)
           wd3 == ConstructAll(wd2, "SpectraData", c)
           data == <<IdsOf(wd3.reg, SubSeq(wd3.ents, 1, Len(a))),
                     IdsOf(wd3.reg, SubSeq(wd3.ents, Len(a) + 1, Len(a) + Len(b))),
                     IdsOf(wd3.reg, SubSeq(wd3.ents, Len(a) + Len(b) + 1,
                                           Len(a) + Len(b) + Len(c)))>>
           end == IF wd3.err = "ok" THEN ComponentWrite(wd3, writer, "Inputs", data)
                  ELSE wd3
       IN /\ hist' = Section(end)
          /\ Commit(end, "inputs")
    /\ UNCHANGED <<writer, toplevel, xmlfile, sec, elems, vocabularies, pc, gens,
                   stream>>

\* MzIdentMLWriter.inputs
inputs(source_files, search_databases, spectra_data) ==
    /\ Idle
    /\ LET a == ensure_iterable(source_files).items
           b == ensure_iterable(search_databases).items
           c == ensure_iterable(spectra_data).items
           wd1 == ConstructAll(Cur, "SourceFile", a)
           wd2 == ConstructAll(wd1, "SearchDatabase", b)
           wd3 == ConstructAll(wd2, "SpectraData", c)
           data == <<IdsOf(wd3.reg, SubSeq(wd3.ents, 1, Len(a))),
                     IdsOf(wd3.reg, SubSeq(wd3.ents, Len(a) + 1, Len(a) + Len(b))),
                     IdsOf(wd3.reg, SubSeq(wd3.ents, Len(a) + Len(b) + 1,
                                           Len(a) + Len(b) + Len(c)))>>
           end == IF wd3.err = "ok" THEN ComponentWrite(wd3, writer, "Inputs", data)
                  ELSE wd3
       IN /\ hist' = Section(end)
          /\ Commit(end, "inputs")
    /\ UNCHANGED <<writer, toplevel, xmlfile, sec, elems, vocabularies, pc, gens,
                   stream>>

\* if isinstance(tol, (list, tuple)): tol = self.<Tolerance>(*tol)
Tolerance(wd, tol) ==
    IF wd.err # "ok" THEN wd
    ELSE IF tol.kind = "list" /\ ~tol.ok THEN Raise(wd, "ValidationError")
    ELSE wd

\* A tolerance entity given the bounds of the list in reverse order.
ConvertedReversed(t, tol) ==
    IF tol.kind = "list"
    THEN [kind |-> "built", t |-> t, args |-> <<tol.args[2], tol.args[1]>>]
    ELSE tol

\* The tolerance handed to SpectrumIdentificationProtocol: the entity of
\* type t built from the items of a list or tuple, in their order, or the
\* argument as it was given.
Converted(t, tol) ==
    IF tol.kind = "list" THEN [kind |-> "built", t |-> t, args |-> tol.args] ELSE tol

\* spectrum_identification_protocol refusing to run before an Inputs
\* element was written.
spectrum_identification_protocol_ordered(enzymes, modification_params, fragment_tolerance, parent_tolerance, threshold) ==
    /\ Idle
    /\ LET a == ensure_iterable(enzymes).items
           b == ensure_iterable(modification_params).items
           wd0 == IF \E i \in 1..Len(out) : out[i].tag = "Inputs"
                  THEN Cur ELSE Raise(Cur, "ScopeViolation")
           wd1 == ConstructAll(wd0, "Enzyme", a)
           wd2 == ConstructAll(wd1, "SearchModification", b)
           wd3 == Tolerance(wd2, fragment_tolerance)
           wd4 == Tolerance(wd3, parent_tolerance)
           data == <<IdsOf(wd4.reg, SubSeq(wd4.ents, 1, Len(a))),
                     IdsOf(wd4.reg, SubSeq(wd4.ents, Len(a) + 1, Len(a) + Len(b))),
                     Converted("FragmentTolerance", fragment_tolerance),
                     Converted("ParentTolerance", parent_tolerance),
                     [kind |-> "Threshold", of |-> threshold]>>
           end == IF wd4.err = "ok"
                  THEN ComponentWrite(wd4, writer, "SpectrumIdentificationProtocol", data)
                  ELSE wd4
       IN /\ hist' = Section(end)
          /\ Commit(end, "spectrum_identification_protocol")
    /\ UNCHANGED <<writer, toplevel, xmlfile, sec, elems, vocabularies, pc, gens,
                   stream>>

\* MzIdentMLWriter.spectrum_identification_protocol
spectrum_identification_protocol(enzymes, modification_params, fragment_tolerance, parent_tolerance, threshold) ==
    /\ Idle
    /\ LET a == ensure_iterable(enzymes).items
           b == ensure_iterable(modification_params).items
           wd1 == ConstructAll(Cur, "Enzyme", a)
           wd2 == ConstructAll(wd1, "SearchModification", b)
           wd3 == Tolerance(wd2, fragment_tolerance)
           wd4 == Tolerance(wd3, parent_tolerance)
           data == <<IdsOf(wd4.reg, SubSeq(wd4.ents, 1, Len(a))),
                     IdsOf(wd4.reg, SubSeq(wd4.ents, Len(a) + 1, Len(a) + Len(b))),
                     Converted("FragmentTolerance", fragment_tolerance),
                     Converted("ParentTolerance", parent_tolerance),
                     [kind |-> "Threshold", of |-> threshold]>>
           end == IF wd4.err = "ok"
                  THEN ComponentWrite(wd4, writer, "SpectrumIdentificationProtocol", data)
                  ELSE wd4
       IN /\ hist' = Section(end)
          /\ Commit(end, "spectrum_identification_protocol")
    /\ UNCHANGED <<writer, toplevel, xmlfile, sec, elems, vocabularies, pc, gens,
                   stream>>


\* --------------------------------------------------- streaming operations
\* A generator expression (self.<T>(**(s or {})) for s in src): nothing is
\* built until it is pulled, and it is passed over once.
Gen(t, src) == [t |-> t, src |-> src, pos |-> 0, done |-> FALSE]

\* The three generators sequence_collection hands to SequenceCollection.
SequenceGens(db_sequences, peptides, peptide_evidence) ==
    <<Gen("DBSequence", ensure_iterable(db_sequences).items),
      Gen("Peptide", ensure_iterable(peptides).items),
      Gen("PeptideEvidence", ensure_iterable(peptide_evidence).items)>>

\* sequence_collection building its three lists of entities before it
\* writes (list comprehensions instead of generator expressions).
sequence_collection_eager(db_sequences, peptides, peptide_evidence) ==
    /\ Idle
    /\ LET g == SequenceGens(db_sequences, peptides, peptide_evidence)
           wd1 == ConstructAll(Cur, "DBSequence", g[1].src)
           wd2 == ConstructAll(wd1, "Peptide", g[2].src)
           wd3 == ConstructAll(wd2, "PeptideEvidence", g[3].src)
           wd == SerStart(wd3, writer, "SequenceCollection")
       IN IF wd.err = "ok"
          THEN /\ pc' = "sequence_collection"
               /\ gens' = g
               /\ stream' = [NoStream EXCEPT !.cur = 1, !.w = writer, !.h = nextH,
                                             !.built = Len(wd3.ents)]
               /\ CommitAs(wd, "sequence_collection", "running", 1)
          ELSE /\ UNCHANGED <<pc, gens, stream>>
               /\ Commit(wd, "sequence_collection")
    /\ UNCHANGED <<writer, toplevel, xmlfile, sec, elems, vocabularies, hist>>

\* MzIdentMLWriter.sequence_collection, up to the point where
\* SequenceCollection.write has begun its element.
sequence_collection(db_sequences, peptides, peptide_evidence) ==
    /\ Idle
    /\ LET g == SequenceGens(db_sequences, peptides, peptide_evidence)
           wd == SerStart(Cur, writer, "SequenceCollection")
       IN IF wd.err = "ok"
          THEN /\ pc' = "sequence_collection"
               /\ gens' = g
               /\ stream' = [NoStream EXCEPT !.cur = 1, !.w = writer, !.h = nextH]
               /\ CommitAs(wd, "sequence_collection", "running", 1)
          ELSE /\ UNCHANGED <<pc, gens, stream>>
               /\ Commit(wd, "sequence_collection")
    /\ UNCHANGED <<writer, toplevel, xmlfile, sec, elems, vocabularies, hist>>

\* iter(identification_results): what the generator of
\* spectrum_identification_list passes over.
Iterate(v) ==
    IF v.kind = "list" THEN v.items
    ELSE IF v.kind = "map" THEN <<StrV>>      \* the keys of the mapping
    ELSE <<>>

\* MzIdentMLWriter._spectrum_identification_result: the identifications are
\* built first, then the result itself, which needs an id.
SpectrumIdentificationResult(wd, s) ==
    IF s.kind # "map" THEN Raise(wd, "TypeError")
    ELSE IF s.key = NoKey THEN Raise(wd, "TypeError")
    ELSE Construct(ConstructAll(wd, "SpectrumIdentificationItem",
                                ensure_iterable(s.items[1]).items),
                   "SpectrumIdentificationResult", s)

\* One item of a generator: the entity built from source item s.
Build(wd, t, s) ==
    IF t = "SpectrumIdentificationResult"
    THEN SpectrumIdentificationResult(wd, s)
    ELSE Construct(wd, t, OrEmpty(s))

\* [self._spectrum_identification_result(**(s or {})) for s in items]
RECURSIVE BuildAll(_, _, _)
BuildAll(wd, t, items) ==
    IF items = <<>> THEN wd
    ELSE BuildAll(Build(wd, t, items[1]), t, Tail(items))

\* spectrum_identification_list converting all its results before it
\* writes (a list comprehension instead of a generator expression).
spectrum_identification_list_eager(identification_results) ==
    /\ Idle
    /\ LET wd0 == IF identification_results.kind = "none"
                  THEN Raise(Cur, "TypeError") ELSE Cur
           wd1 == BuildAll(wd0, "SpectrumIdentificationResult",
                           Iterate(identification_results))
           wd == SerStart(wd1, writer, "SpectrumIdentificationList")
       IN IF wd.err = "ok"
          THEN /\ pc' = "spectrum_identification_list"
               /\ gens' = <<Gen("SpectrumIdentificationResult",
                                Iterate(identification_results))>>
               /\ stream' = [NoStream EXCEPT !.cur = 1, !.w = writer, !.h = nextH,
                                             !.built = Len(Iterate(identification_results))]
               /\ CommitAs(wd, "spectrum_identification_list", "running", 1)
          ELSE /\ UNCHANGED <<pc, gens, stream>>
               /\ Commit(wd, "spectrum_identification_list")
    /\ UNCHANGED <<writer, toplevel, xmlfile, sec, elems, vocabularies, hist>>

\* MzIdentMLWriter.spectrum_identification_list, up to the point where
\* SpectrumIdentificationList.write has begun its element.
spectrum_identification_list(identification_results) ==
    /\ Idle
    /\ LET wd0 == IF identification_results.kind = "none"
                  THEN Raise(Cur, "TypeError") ELSE Cur
           wd == SerStart(wd0, writer, "SpectrumIdentificationList")
       IN IF wd.err = "ok"
          THEN /\ pc' = "spectrum_identification_list"
               /\ gens' = <<Gen("SpectrumIdentificationResult",
                                Iterate(identification_results))>>
               /\ stream' = [NoStream EXCEPT !.cur = 1, !.w = writer, !.h = nextH]
               /\ CommitAs(wd, "spectrum_identification_list", "running", 1)
          ELSE /\ UNCHANGED <<pc, gens, stream>>
               /\ Commit(wd, "spectrum_identification_list")
    /\ UNCHANGED <<writer, toplevel, xmlfile, sec, elems, vocabularies, hist>>

\* A pull that skips an item no entity can be built from and goes on.
StreamPullSkipping ==
    /\ pc # "idle"
    /\ stream.cur <= Len(gens)
    /\ LET c == stream.cur
           g == gens[c]
       IN IF g.pos = Len(g.src)
          THEN /\ gens' = [gens EXCEPT ![c].done = TRUE]
               /\ stream' = [stream EXCEPT !.cur = c + 1, !.pulls = stream.pulls + 1]
               /\ UNCHANGED <<pc, ser, out, flushed, outfile, nextH, registry, minted,
                              result, lastOp, calls, hist>>
          ELSE LET wd1 == Build(Cur, g.t, g.src[g.pos + 1])
                   wd2 == ComponentWrite(wd1, stream.w, g.t,
                                         IdsOf(wd1.reg, <<Last(wd1.ents)>>))
                   wd3 == SerEnd([wd1 EXCEPT !.err = "ok"], stream.w, stream.h)
               IN IF wd1.err = "ok"
                  THEN /\ gens' = [gens EXCEPT ![c].pos = g.pos + 1]
                       /\ stream' = [stream EXCEPT !.built = stream.built + 1,
                                                   !.pulls = stream.pulls + 1]
                       /\ pc' = pc
                       /\ hist' = hist
                       /\ CommitAs(wd2, lastOp, "running", 0)
                  ELSE /\ gens' = [gens EXCEPT ![c].pos = g.pos + 1]
                       /\ stream' = [stream EXCEPT !.pulls = stream.pulls + 1]
                       /\ pc' = pc
                       /\ hist' = hist
                       /\ CommitAs(Cur, lastOp, "running", 0)
    /\ UNCHANGED <<writer, toplevel, xmlfile, sec, elems, vocabularies>>

\* The writing component pulls the next item of the generator it is
\* passing over: the item is built and written, or the generator is
\* exhausted, or building the item raises and the exception leaves the
\* component (its element is ended on the way out) and the call.
StreamPull ==
    /\ pc # "idle"
    /\ stream.cur <= Len(gens)
    /\ LET c == stream.cur
           g == gens[c]
       IN IF g.pos = Len(g.src)
          THEN /\ gens' = [gens EXCEPT ![c].done = TRUE]
               /\ stream' = [stream EXCEPT !.cur = c + 1, !.pulls = stream.pulls + 1]
               /\ UNCHANGED <<pc, ser, out, flushed, outfile, nextH, registry, minted,
                              result, lastOp, calls, hist>>
          ELSE LET wd1 == Build(Cur, g.t, g.src[g.pos + 1])
                   wd2 == ComponentWrite(wd1, stream.w, g.t,
                                         IdsOf(wd1.reg, <<Last(wd1.ents)>>))
                   wd3 == SerEnd([wd1 EXCEPT !.err = "ok"], stream.w, stream.h)
               IN IF wd1.err = "ok"
                  THEN /\ gens' = [gens EXCEPT ![c].pos = g.pos + 1]
                       /\ stream' = [stream EXCEPT !.built = stream.built + 1,
                                                   !.pulls = stream.pulls + 1]
                       /\ pc' = pc
                       /\ hist' = hist
                       /\ CommitAs(wd2, lastOp, "running", 0)
                  ELSE /\ gens' = <<>>
                       /\ stream' = NoStream
                       /\ pc' = "idle"
                       /\ hist' = Section(wd1)
                       /\ CommitAs(wd3, lastOp, wd1.err, 0)
    /\ UNCHANGED <<writer, toplevel, xmlfile, sec, elems, vocabularies>>

\* The writing component has passed over all its generators: it ends its
\* element and the call returns.
StreamEnd ==
    /\ pc # "idle"
    /\ stream.cur > Len(gens)
    /\ pc' = "idle"
    /\ gens' = <<>>
    /\ stream' = NoStream
    /\ LET wd == SerEnd(Cur, stream.w, stream.h)
       IN CommitAs(wd, lastOp, wd.err, 0)
    /\ UNCHANGED <<writer, toplevel, xmlfile, sec, elems, vocabularies, hist>>

\* A generator that was passed over is pulled again: it yields nothing.
StreamReiterate(i) ==
    /\ pc # "idle"
    /\ i \in 1..Len(gens)
    /\ gens[i].done
    /\ i = stream.cur - 1
    /\ i \notin stream.reit
    /\ stream' = [stream EXCEPT !.reit = stream.reit \cup {i},
                                !.pulls = stream.pulls + 1]
    /\ UNCHANGED <<writer, toplevel, ser, out, flushed, outfile, xmlfile, nextH, sec,
                   elems, vocabularies, registry, minted, pc, gens, result, lastOp,
                   hist, calls>>


Next ==
    \/ Enter
    \/ \E exc \in BOOLEAN : Exit(exc)
    \/ Close
    \/ Write
    \/ ElementEnter
    \/ \E i \in 1..Len(elems), raised \in {"ok", "BodyError", "AttributeError"} :
          ElementExit(i, raised)
    \/ \E s \in Sections : SectionEnter(s)
    \/ \E s \in Sections, exc \in BOOLEAN : SectionExit(s, exc)
    \/ \E v \in CvArgs : controlled_vocabularies(v)
    \/ \E a \in ProvidenceArgs : providence(a[1], a[2], a[3])
    \/ \E a \in InputsArgs : inputs(a[1], a[2], a[3])
    \/ \E a \in ProtocolArgs :
          spectrum_identification_protocol(a[1], a[2], a[3], a[4], a[5])
    \/ \E a \in SequenceArgs : sequence_collection(a[1], a[2], a[3])
    \/ \E r \in ResultArgs : spectrum_identification_list(r)
    \/ StreamPull
    \/ StreamEnd
    \/ \E i \in 1..Len(gens) : StreamReiterate(i)

Spec == Init /\ [][Next]_vars

\* ================================================================ claims
\* The calls that write or open a scope through the session.
WriteOps == {"element_enter", "write", "controlled_vocabularies", "providence",
             "inputs", "sequence_collection", "spectrum_identification_protocol",
             "spectrum_identification_list"}

\* A step that is the call `op` (not a later step of a call in progress).
Called(op) == lastOp' = op /\ calls' = calls + 1

\* C1: on a writer that was constructed but not entered (writer is None),
\* every write or section operation fails with the not-ready error and
\* writes nothing to the sink.
NotReadyBeforeEntry ==
    (writer = None /\ lastOp \in WriteOps) => (result = "NotReady" /\ out = <<>>)

\* C2: after __exit__ was invoked on an entered session, on every path, the
\* root element has been closed, the xmlfile context has been exited and
\* outfile has been closed.
SinkReleasedOnExit ==
    [][(Called("exit") /\ toplevel # NoHandle)
         => /\ ser'[writer].stack = <<>>
            /\ ser'[writer].status = "closed"
            /\ outfile' = "closed"]_vars

\* The handles of a sequence of scopes.
Handles(scopes) == [i \in 1..Len(scopes) |-> scopes[i].h]

\* The element the writing component of a streaming call holds open on w.
ComponentScope(w) ==
    IF pc # "idle" /\ stream.w = w THEN <<stream.h>> ELSE <<>>

\* The elements left open by a sequence of serializer events, innermost
\* last; <<0>> when an element is ended that is not the innermost open one
\* or a node is written outside every element.
RECURSIVE Replay(_, _)
Replay(evs, st) ==
    IF evs = <<>> THEN st
    ELSE LET e == Head(evs)
         IN IF e.k = "open" THEN Replay(Tail(evs), Append(st, e.h))
            ELSE IF st = <<>> THEN <<0>>
            ELSE IF e.k = "leaf" THEN Replay(Tail(evs), st)
            ELSE IF Last(st) = e.h THEN Replay(Tail(evs), ButLast(st))
            ELSE <<0>>

\* The events writer w has put out.
OutOf(w) == SelectSeq(out, LAMBDA e : e.w = w)

\* C3: while every close made through XMLWriterMixin.element,
\* DocumentSection.__exit__ and the session's __exit__ respects LIFO order
\* on a writer, the elements open on that writer are exactly the scopes the
\* caller still holds, in the order of opening (every scope that was left,
\* also by an exception from its body, has been ended), and its output is
\* properly nested: each element is ended once, innermost first.
ScopesProperlyNested ==
    \A w \in 1..Len(ser) :
        w \notin hist.broken =>
            /\ Handles(ser[w].stack) = Handles(HeldOn(w)) \o ComponentScope(w)
            /\ Replay(OutOf(w), <<>>) = Handles(ser[w].stack)

\* C3 witness: an element scope whose body raised was left in LIFO order and
\* its element was ended.
ScopeClosedAfterBodyRaised ==
    /\ lastOp = "element_exit"
    /\ result = "BodyError"
    /\ writer \notin hist.broken
    /\ out # <<>>
    /\ Last(out).k = "close"
    /\ Last(out).tag = ElementTag

\* The scopes the caller holds open.
HeldScopes == {hist.held[i] : i \in 1..Len(hist.held)}

CloseOps == {"exit", "section_exit", "element_exit"}

\* C4: an attempt to close a scope while a scope the caller opened after it
\* on the same writer is still open fails with the scope violation error
\* and closes nothing: the serializer's open elements and the output are
\* left as they were.
OutOfOrderCloseRefused ==
    [][((\E op \in CloseOps : Called(op))
          /\ hist'.target \in HeldScopes
          /\ ~InOrder(hist'.target))
         => /\ result' = "ScopeViolation"
            /\ ser' = ser
            /\ out' = out]_vars

\* C4 witness: a DocumentSection or the session was asked to exit while a
\* scope opened after it was still entered, and the exit was refused.
OuterExitRefused ==
    /\ lastOp \in {"exit", "section_exit"}
    /\ result = "ScopeViolation"
    /\ hist.target \in HeldScopes
    /\ ~InOrder(hist.target)

\* C5: after __exit__ has run on the session, or close() has been called,
\* no write or section operation succeeds: each fails and appends nothing
\* to the output.
NoWriteAfterExit ==
    [][(hist.ended /\ \E op \in WriteOps : Called(op))
         => (result' \notin {"ok", "running"} /\ out' = out)]_vars

\* The entries a controlled_vocabularies call was given.
Given(v) == IF v.kind = "none" THEN <<>> ELSE v.items

\* C6: the session's vocabulary list only grows; a controlled_vocabularies
\* call leaves it equal to the list before the call followed by the entries
\* supplied (unchanged for None or an empty list), and a call that succeeds
\* emits exactly one vocabulary-list element, holding the whole cumulative
\* list; no other call changes the list.
VocabularyListAccumulates ==
    [][/\ SubSeq(vocabularies', 1, Len(vocabularies)) = vocabularies
       /\ \A v \in CvArgs :
            controlled_vocabularies(v) =>
                /\ vocabularies' = vocabularies \o Given(v)
                /\ result' = "ok" =>
                     out' = Append(out, Event("leaf", "cvList", writer, 0, vocabularies'))
                /\ result' # "ok" => out' = out
       /\ ~Called("controlled_vocabularies") => vocabularies' = vocabularies]_vars

\* C6 witness: two vocabulary lists were emitted, the later one holding the
\* entries of the earlier one and more.
VocabularyEmittedAgain ==
    \E i, j \in 1..Len(out) :
        /\ i < j
        /\ out[i].tag = "cvList"
        /\ out[j].tag = "cvList"
        /\ Len(out[j].data) > Len(out[i].data)
        /\ SubSeq(out[j].data, 1, Len(out[i].data)) = out[i].data

\* C7: a providence call that succeeds emits AnalysisSoftwareList, Provider
\* and AuditCollection, in this order, and the Provider references exactly
\* the id of the Person in the AuditCollection of the same call.
ProviderReferencesPerson ==
    [][(Called("providence") /\ result' = "ok")
         => /\ Len(out') = Len(out) + 3
            /\ SubSeq(out', 1, Len(out)) = out
            /\ out'[Len(out) + 1].tag = "AnalysisSoftwareList"
            /\ out'[Len(out) + 2].tag = "Provider"
            /\ out'[Len(out) + 3].tag = "AuditCollection"
            /\ out'[Len(out) + 2].data = <<out'[Len(out) + 3].data[1]>>]_vars

\* C7 witness: a providence call wrote a Provider and an AuditCollection
\* whose Person and Organization go by different keys.
ProvidenceWritten ==
    /\ lastOp = "providence"
    /\ result = "ok"
    /\ Last(out).tag = "AuditCollection"
    /\ Last(out).data[1][3] # Last(out).data[2][3]

\* C8: in the identity registry a (type, key) has one id, two keys of one
\* type have different ids, one key under two types has different ids, and
\* a binding, once made, is never removed or changed.
RegistryStable ==
    /\ [](\A a, b \in registry :
            /\ (a.t = b.t /\ a.key = b.key) => a.id = b.id
            /\ (a.t = b.t /\ a.key # b.key) => a.id # b.id
            /\ (a.t # b.t /\ a.key = b.key) => a.id # b.id
            /\ Resolve(registry, a.t, a.key) = a.id)
    /\ [][registry \subseteq registry']_vars

\* C8 witness: one key is bound under two types and one type has two keys.
RegistryShared ==
    /\ \E a, b \in registry : a.t # b.t /\ a.key = b.key
    /\ \E a, b \in registry : a.t = b.t /\ a.key # b.key

RECURSIVE SumPos(_)
SumPos(gs) == IF gs = <<>> THEN 0 ELSE Head(gs).pos + SumPos(Tail(gs))

InSequenceCollection == pc = "sequence_collection"

\* C9: sequence_collection builds no entity before writing starts; while
\* SequenceCollection is written each step of a generator builds at most one
\* entity, from the next item of the generator being passed over, and
\* writes it, so every item is converted once, when it is pulled; and
\* pulling a generator that was passed over yields nothing, builds nothing
\* and raises nothing.
SequencesLazySinglePass ==
    /\ [](InSequenceCollection =>
            /\ stream.built = SumPos(gens)
            /\ \A i \in 1..Len(gens) :
                 /\ gens[i].pos <= Len(gens[i].src)
                 /\ i < stream.cur => gens[i].pos = Len(gens[i].src)
                 /\ i > stream.cur => gens[i].pos = 0)
    /\ [][/\ Called("sequence_collection") =>
               /\ registry' = registry
               /\ minted' = minted
               /\ pc' # "idle" =>
                    /\ stream'.built = 0
                    /\ out' = Append(out, Event("open", "SequenceCollection",
                                                writer, nextH, <<>>))
          /\ (InSequenceCollection /\ pc' = pc) =>
               /\ stream'.built - stream.built \in {0, 1}
               /\ Len(out') = Len(out) + (stream'.built - stream.built)
               /\ stream'.built = stream.built + 1 =>
                    /\ gens'[stream.cur].pos = gens[stream.cur].pos + 1
                    /\ Last(out').k = "leaf"
                    /\ Last(out').tag = gens[stream.cur].t
          /\ (InSequenceCollection /\ pc' = pc /\ stream'.reit # stream.reit) =>
               /\ out' = out
               /\ registry' = registry
               /\ gens' = gens
               /\ stream'.built = stream.built
               /\ result' = "running"]_vars

\* C9 witness: inside sequence_collection two entities were built on demand
\* and a generator that had been passed over was pulled again.
GeneratorPulledAgain ==
    /\ InSequenceCollection
    /\ stream.built >= 2
    /\ stream.reit # {}

\* The item the writing component pulls next cannot be built.
NextItemFails ==
    /\ pc # "idle"
    /\ stream.cur <= Len(gens)
    /\ gens[stream.cur].pos < Len(gens[stream.cur].src)
    /\ Build(Cur, gens[stream.cur].t,
             gens[stream.cur].src[gens[stream.cur].pos + 1]).err # "ok"

EagerOps == {"providence", "inputs", "spectrum_identification_protocol"}
BuildErrors == {"ValidationError", "TypeError"}

Supplied(v) == Len(ensure_iterable(v).items)

\* The entity types of a list of ids.
TypesOf(ids) == {ids[i][1] : i \in 1..Len(ids)}

\* C11: an inputs call that succeeds appends exactly one Inputs element to
\* the output; its children are the list of source files, the list of
\* search databases and the list of spectra data, in this order, each with
\* one entity per item supplied; with three empty arguments the element is
\* still emitted, holding three empty lists.
InputsEmittedOnce ==
    [][(Called("inputs") /\ result' = "ok") =>
       \A a \in InputsArgs :
         inputs(a[1], a[2], a[3]) =>
            /\ Len(out') = Len(out) + 1
            /\ SubSeq(out', 1, Len(out)) = out
            /\ Last(out').k = "leaf"
            /\ Last(out').tag = "Inputs"
            /\ Len(Last(out').data) = 3
            /\ \A i \in 1..3 : Len(Last(out').data[i]) = Supplied(a[i])
            /\ TypesOf(Last(out').data[1]) \subseteq {"SourceFile"}
            /\ TypesOf(Last(out').data[2]) \subseteq {"SearchDatabase"}
            /\ TypesOf(Last(out').data[3]) \subseteq {"SpectraData"}]_vars

\* C11 witness: an Inputs element with three empty lists was emitted, and
\* one with a lone source file and two search databases.
InputsEmptyAndPopulated ==
    \E i, j \in 1..Len(out) :
        /\ out[i].tag = "Inputs"
        /\ out[i].data = <<<<>>, <<>>, <<>>>>
        /\ out[j].tag = "Inputs"
        /\ Len(out[j].data[1]) = 1
        /\ Len(out[j].data[2]) = 2

\* The section operations of the session.
SectionOps == {"controlled_vocabularies", "providence", "inputs",
               "sequence_collection", "spectrum_identification_protocol",
               "spectrum_identification_list"}

StreamingOps == {"sequence_collection", "spectrum_identification_list"}

\* The elements the writing components of the streaming operations begin.
ComponentTags == {"SequenceCollection", "SpectrumIdentificationList"}

\* The session is entered: it has a writer whose root element is open.
Entered == writer # None /\ ser[writer].status = "in"

\* An entity can be built from every item of a list-valued argument.
WellFormed(v) ==
    \A i \in 1..Supplied(v) :
        /\ OrEmpty(ensure_iterable(v).items[i]).kind = "map"
        /\ OrEmpty(ensure_iterable(v).items[i]).ok

\* The events appended to the output by a step.
Appended == SubSeq(out', Len(out) + 1, Len(out'))

\* C12: in an entered session no section operation is refused on account
\* of the calls made before it: whatever was called before, and however
\* often, a call can only fail in building an entity from its own
\* arguments, and succeeds when its arguments are well formed.  The output
\* only grows at its end, so the elements of the calls stand in call
\* order; a call that returns leaves the open elements as they were, and
\* between calls no element of a section is open, so the elements of a
\* call are children of the scope the caller holds (the root element when
\* the caller opened no other scope), never of another section's element.
SectionOrderFree ==
    /\ [](\A w \in 1..Len(ser) :
            /\ pc = "idle" =>
                 \A i \in 1..Len(ser[w].stack) : ser[w].stack[i].tag \notin ComponentTags
            /\ pc # "idle" =>
                 \A i \in 1..Len(ser[w].stack) :
                     ser[w].stack[i].tag \in ComponentTags
                         <=> (w = stream.w /\ i = Len(ser[w].stack)))
    /\ [][/\ SubSeq(out', 1, Len(out)) = out
          /\ (Entered /\ \E op \in SectionOps : Called(op)) =>
               /\ result' \in {"ok", "running"} \cup BuildErrors
               /\ \A i \in 1..Len(Appended) : Appended[i].w = writer
               /\ result' \in {"ok"} \cup BuildErrors =>
                    /\ ser' = ser
                    /\ \A i \in 1..Len(Appended) : Appended[i].k = "leaf"
               /\ result' = "running" =>
                    /\ Len(Appended) = 1
                    /\ Appended[1].k = "open"
                    /\ Appended[1].tag \in ComponentTags
                    /\ ser'[writer].stack =
                         Append(ser[writer].stack,
                                [tag |-> Appended[1].tag, h |-> Appended[1].h])
          /\ (Entered /\ pc # "idle" /\ pc' = "idle") =>
               /\ result' = "ok" \/ (NextItemFails /\ result' \in BuildErrors)
               /\ ser'[stream.w].stack = ButLast(ser[stream.w].stack)
               /\ Last(out').k = "close"
               /\ Last(out').h = stream.h
          /\ (Entered /\ pc # "idle" /\ pc' = pc) =>
               /\ ser' = ser
               /\ \A i \in 1..Len(Appended) : Appended[i].k = "leaf"
          /\ (Entered /\ Called("controlled_vocabularies")) => result' = "ok"
          /\ (Entered /\ Called("sequence_collection")) => result' = "running"
          /\ (Entered /\ Called("providence")) =>
               \A a \in ProvidenceArgs :
                   (providence(a[1], a[2], a[3]) /\ \A i \in 1..3 : WellFormed(a[i]))
                     => result' = "ok"
          /\ (Entered /\ Called("inputs")) =>
               \A a \in InputsArgs :
                   (inputs(a[1], a[2], a[3]) /\ \A i \in 1..3 : WellFormed(a[i]))
                     => result' = "ok"
          /\ (Entered /\ Called("spectrum_identification_protocol")) =>
               \A a \in ProtocolArgs :
                   (spectrum_identification_protocol(a[1], a[2], a[3], a[4], a[5])
                      /\ WellFormed(a[1]) /\ WellFormed(a[2]) /\ a[3].ok /\ a[4].ok)
                     => result' = "ok"]_vars

\* C12 witness: in one session an identification list, then a protocol,
\* then the inputs were written, the reverse of the schema's order, each a
\* child of the root element.
SectionsInReverseOrder ==
    /\ Len(out) = 5
    /\ out[1] = Event("open", RootTag, 1, 1, <<>>)
    /\ out[2] = Event("open", "SpectrumIdentificationList", 1, 2, <<>>)
    /\ out[3] = Event("close", "SpectrumIdentificationList", 1, 2, <<>>)
    /\ out[4].tag = "SpectrumIdentificationProtocol"
    /\ out[5].tag = "Inputs"
    /\ result = "ok"
    /\ Handles(ser[1].stack) = <<1>>

\* A step ended one element and the writer was flushed after it: all of the
\* output has reached the sink, or the sink, closed before, refused the
\* flush and the refusal left the call.
ClosedThenFlushed ==
    /\ Len(out') = Len(out) + 1
    /\ Last(out').k = "close"
    /\ \/ result' = "ok" /\ flushed' = Len(out')
       \/ result' = "IOError" /\ outfile = "closed"

\* A step whose close was refused: nothing was ended and nothing released.
CloseRefused ==
    /\ result' \notin {"ok", "IOError"}
    /\ out' = out
    /\ ser' = ser
    /\ outfile' = outfile

\* C13: a DocumentSection.__exit__, and a session __exit__, that ends its
\* element flushes the writer after ending it and before it returns,
\* whether or not it was called with an exception; the session releases the
\* sink (xmlfile exited, outfile closed) only after that flush.
FlushFollowsClose ==
    [][/\ Called("section_exit") => (ClosedThenFlushed \/ CloseRefused)
       /\ (Called("exit") /\ toplevel # NoHandle) =>
            /\ ClosedThenFlushed \/ CloseRefused
            /\ (outfile' # outfile \/ ser'[writer].status = "closed") =>
                 flushed' = Len(out')]_vars

\* C13 witness: a section was exited and then the session; after each the
\* whole output, with the end of the element, had reached the sink.
SectionAndSessionFlushed ==
    /\ lastOp = "exit"
    /\ result = "ok"
    /\ outfile = "closed"
    /\ Len(out) = 4
    /\ out[3].k = "close"
    /\ out[3].tag \in Sections
    /\ out[4] = Event("close", RootTag, 1, 1, <<>>)
    /\ flushed = 4

\* The root elements begun so far.
RootsOpened == {i \in 1..Len(out) : out[i].k = "open" /\ out[i].tag = RootTag}

\* C14: whatever __enter__, __exit__ and close calls are made on one
\* session, it acquires at most one writer instance and begins at most one
\* root element in its whole lifetime.
SingleWriterSingleRoot ==
    /\ Len(ser) <= 1
    /\ Cardinality(RootsOpened) <= 1

\* Values a caller may pass for a list-valued argument.
SampleValues == {NoneV, StrV, Good1, Plain, Bad, ListV(<<>>), ListV(<<Good1>>),
                 ListV(<<Good1, Good2>>), ListV(<<Plain, Bad, Good2>>)}

\* C15: ensure_iterable turns a lone mapping, a string or None into a
\* one-element sequence holding that value and returns any other iterable
\* as it is; and every section operation passes over its list-valued
\* arguments as ensure_iterable gives them: sequence_collection and
\* spectrum_identification_list draw their entities from the normalized
\* arguments.
ListArgumentsNormalized ==
    [][/\ \A v \in SampleValues :
            /\ v.kind \in {"map", "str", "none"} => ensure_iterable(v) = ListV(<<v>>)
            /\ v.kind = "list" => ensure_iterable(v) = v
       /\ \A a \in SequenceArgs :
            (Entered /\ sequence_collection(a[1], a[2], a[3])) =>
                \A i \in 1..3 : gens'[i].src = ensure_iterable(a[i]).items
       /\ \A r \in ResultArgs :
            (Entered /\ spectrum_identification_list(r)) =>
                /\ result' = "running"
                /\ gens'[1].src = ensure_iterable(r).items]_vars

InIdentificationList == pc = "spectrum_identification_list"

\* The place in the output where the element of the streaming write in
\* progress was begun.
BegunAt == CHOOSE i \in 1..Len(out) : out[i].k = "open" /\ out[i].h = stream.h

\* C16: spectrum_identification_list converts no result before writing
\* starts: the call begins one SpectrumIdentificationList element and builds
\* nothing; each step of the write converts at most one result, the next
\* one of the results given, and hands it to the writer at once, so that
\* result k is converted when results 1..k-1 are in the output and the
\* results after it are unconverted; the end of the write ends that one
\* element.
ResultsStreamed ==
    /\ [](InIdentificationList =>
            /\ Len(gens) = 1
            /\ stream.built = gens[1].pos
            /\ gens[1].pos <= Len(gens[1].src)
            /\ Len(out) = BegunAt + stream.built
            /\ out[BegunAt].tag = "SpectrumIdentificationList"
            /\ \A i \in BegunAt + 1..Len(out) :
                 /\ out[i].k = "leaf"
                 /\ out[i].tag = "SpectrumIdentificationResult")
    /\ [][/\ Called("spectrum_identification_list") =>
               /\ registry' = registry
               /\ minted' = minted
               /\ pc' # "idle" =>
                    /\ stream'.built = 0
                    /\ out' = Append(out, Event("open", "SpectrumIdentificationList",
                                                writer, nextH, <<>>))
               /\ pc' = "idle" => out' = out
          /\ (InIdentificationList /\ pc' = pc) =>
               /\ stream'.built - stream.built \in {0, 1}
               /\ stream'.built = stream.built => (out' = out /\ registry' = registry)
               /\ stream'.built = stream.built + 1 =>
                    /\ gens'[1].pos = gens[1].pos + 1
                    /\ out' = Append(out, Event("leaf", "SpectrumIdentificationResult",
                                                stream.w, 0,
                                                <<id_maker("SpectrumIdentificationResult",
                                                           gens[1].src[gens[1].pos + 1].key)>>))
          /\ (InIdentificationList /\ pc' = "idle") =>
               out' = Append(out, Event("close", "SpectrumIdentificationList",
                                        stream.w, stream.h, <<>>))]_vars

\* C16 witness: of two results given, the first is in the output while the
\* second has not been converted.
FirstResultWrittenSecondPending ==
    /\ InIdentificationList
    /\ Len(gens[1].src) = 2
    /\ stream.built = 1
    /\ Last(out).tag = "SpectrumIdentificationResult"
    /\ Bound(registry, "SpectrumIdentificationResult", gens[1].src[1].key) # {}
    /\ Bound(registry, "SpectrumIdentificationResult", gens[1].src[2].key) = {}

\* What SpectrumIdentificationProtocol is to be given for a tolerance
\* argument tol of the call, for the tolerance entity type t.
PassedOn(t, tol) ==
    IF tol.kind = "list" THEN [kind |-> "built", t |-> t, args |-> tol.args] ELSE tol

\* C17: a spectrum_identification_protocol call that succeeds appends
\* exactly one protocol element to the output; its threshold is one
\* Threshold entity wrapping the threshold argument as given, None
\* included; a fragment or parent tolerance given as a list or tuple
\* arrives as the FragmentTolerance or ParentTolerance entity built from
\* its items in their order, and one given as an entity or as None arrives
\* as it was given.
ProtocolEmittedOnce ==
    [][(Called("spectrum_identification_protocol") /\ result' = "ok") =>
       \A a \in ProtocolArgs :
         spectrum_identification_protocol(a[1], a[2], a[3], a[4], a[5]) =>
            /\ Len(out') = Len(out) + 1
            /\ SubSeq(out', 1, Len(out)) = out
            /\ Last(out').k = "leaf"
            /\ Last(out').tag = "SpectrumIdentificationProtocol"
            /\ Len(Last(out').data) = 5
            /\ Len(Last(out').data[1]) = Supplied(a[1])
            /\ Len(Last(out').data[2]) = Supplied(a[2])
            /\ Last(out').data[3] = PassedOn("FragmentTolerance", a[3])
            /\ Last(out').data[4] = PassedOn("ParentTolerance", a[4])
            /\ Last(out').data[5] = [kind |-> "Threshold", of |-> a[5]]]_vars

\* C17 witness: one protocol was written with a None threshold and no
\* tolerances, and one with a fragment tolerance built from a list and a
\* parent tolerance given as an entity.
ProtocolsWritten ==
    \E i, j \in 1..Len(out) :
        /\ out[i].tag = "SpectrumIdentificationProtocol"
        /\ out[i].data[5] = [kind |-> "Threshold", of |-> "none"]
        /\ out[i].data[3] = TolNone
        /\ out[j].tag = "SpectrumIdentificationProtocol"
        /\ out[j].data[3] = [kind |-> "built", t |-> "FragmentTolerance",
                              args |-> <<"lower", "upper">>]
        /\ out[j].data[4] = TolEntity

\* C18: when building an entity fails inside providence, inputs or
\* spectrum_identification_protocol, the call has written nothing and opened
\* or closed nothing: the output, what has reached the sink, the
\* serializer's open elements, the sink, and the scopes the session and
\* the caller hold are as they were before the call.
EagerSectionsWriteNothingOnFailure ==
    [][((\E op \in EagerOps : Called(op)) /\ result' \in BuildErrors) =>
          /\ out' = out
          /\ flushed' = flushed
          /\ ser' = ser
          /\ nextH' = nextH
          /\ outfile' = outfile
          /\ xmlfile' = xmlfile
          /\ writer' = writer
          /\ toplevel' = toplevel
          /\ sec' = sec
          /\ elems' = elems
          /\ hist'.held = hist.held
          /\ pc' = "idle"]_vars

\* C18 witness: in an entered session that had written its inputs, a
\* providence call built its software entity, failed in building the owner,
\* and left the Inputs element the last thing in the output.
ProvidenceFailedAfterSoftwareBuilt ==
    /\ Entered
    /\ lastOp = "providence"
    /\ result = "ValidationError"
    /\ Bound(registry, "AnalysisSoftware", <<"user", 1>>) # {}
    /\ Len(out) = 2
    /\ Last(out).tag = "Inputs"

====
